---- MODULE Spec2Model ----
(***************************************************************************)
(* Game of Life (src/game_of_life/gol.c): the configuration is read by     *)
(* init_game_data_from_args, play_gol runs data->iters rounds on the torus *)
(* with two buffers (data->cells and new_world) that are swapped after     *)
(* every round, and the global total_live counts the live cells.           *)
(*                                                                         *)
(* A buffer is a function from 0..n-1 to the stored int.  The loops of the *)
(* program are stepped one iteration at a time: pc names the position of   *)
(* main, (i, j) the cell of play_gol's pass, sj the seed of the seed loop. *)
(***************************************************************************)
EXTENDS Integers, FiniteSets, Sequences, TLC

(* ------------------------------ bounds --------------------------------- *)
\* largest row / column count a configuration file gives
MaxRows == 3
MaxCols == 3
\* largest number of cells (rows * cols) a configuration file asks for
MaxCells == 9
\* largest iteration count a configuration file gives
MaxIters == 2
\* largest number of seed coordinates a configuration file gives
MaxSeeds == 3

\* smallest dimension, iteration count and coordinate a file gives: one
\* below zero, so that the non-positive cases of each are present
MinDim == 0 - 1
MinIters == 0 - 1
MinCoord == 0 - 1

(* --------------------------- program constants ------------------------- *)
OUTPUT_NONE == 0
OUTPUT_ASCII == 1
OUTPUT_VISI == 2

\* the content of malloc'ed storage that was never written: an indeterminate
\* int, kept apart from the values 0 and 1 the program stores
Uninit == 7

NULL == 0
\* the two heap blocks of a run: the one init_game_data_from_args allocates
\* and the one play_gol allocates
BufInit == 1
BufPlay == 2

VARIABLES
  pc,            \* position of main
  rows, cols, iters, output_mode, current_round,   \* struct gol_data
  cells,         \* data->cells: the block it points to
  total_live,    \* the global counter
  heap,          \* block -> its content
  alloc,         \* block -> "none" | "live" | "freed" | "double free"
  new_world,     \* play_gol's local pointer
  ret,           \* what init_game_data_from_args returned (-1: not yet)
  sj,            \* init_game_data_from_args: seed loop counter j
  k, i, j,       \* play_gol: loop counters
  x, y,          \* init_game_data_from_args: the coordinate fscanf read last
  todo,          \* play_gol: indices of the current pass not yet visited
  grid0,         \* history: the grid init_game_data_from_args produced
  gen_before     \* history: the grid at the start of the current round

vars == << pc, rows, cols, iters, output_mode, current_round, cells,
           total_live, heap, alloc, new_world, ret, sj, x, y, k, i, j,
           todo, grid0, gen_before >>

(* ------------------------------ helpers -------------------------------- *)
\* C's % for a positive divisor: the remainder has the sign of the dividend
CRem(a, b) == IF a >= 0 THEN a % b ELSE 0 - ((0 - a) % b)

\* malloc(n * sizeof(int)): n ints of indeterminate content (none if n <= 0)
malloc(n) == [p \in 0..(n - 1) |-> Uninit]

\* the cells the program's loops visit: 0 <= a < rows, 0 <= b < cols
GridCells(r, c) == (0..(r - 1)) \X (0..(c - 1))

\* the grid a buffer holds: cell (a, b) at index a*cols + b
AsGrid(buf, r, c) == [q \in GridCells(r, c) |-> buf[q[1] * c + q[2]]]

Offsets == (-1..1) \X (-1..1)

\* count_neighbors: the 3x3 scan around (ci, cj), the cell itself included
count_neighbors_abs(buf, r, c, ci, cj) ==
  Cardinality({o \in Offsets :
     LET a == CRem(ci + o[1], r) * c
         b == CRem(cj + o[2], c)
         index_neighbor == (IF a < 0 THEN 0 - a ELSE a) + (IF b < 0 THEN 0 - b ELSE b)
     IN  buf[index_neighbor] = 1})

\* count_neighbors: the index of the neighbour at offset (l, kk) of (ci, cj)
\* as index_neighbor with the plain remainder, (i+l) % rows and (j+k) % cols
index_neighbor_plain(r, c, ci, cj, l, kk) ==
  (CRem(ci + l, r) * c) + CRem(cj + kk, c)

index_neighbor(r, c, ci, cj, l, kk) ==
  (CRem(CRem(ci + l, r) + r, r) * c) + CRem(CRem(cj + kk, c) + c, c)

count_neighbors(buf, r, c, ci, cj) ==
  Cardinality({o \in Offsets : buf[index_neighbor(r, c, ci, cj, o[1], o[2])] = 1})

\* update_world: writes array[idx] and counts the cell in total_live
\* as update_world with a dead cell born on 2 neighbours as well
update_world_b2(cur, array, tl, neighbors, idx) ==
  LET temp_cell == cur[idx]
      born == (temp_cell = 0 /\ neighbors \in {2, 3}) \/ (temp_cell = 1 /\ neighbors \in {2, 3})
  IN  [array |-> [array EXCEPT ![idx] = IF born THEN 1 ELSE 0],
       total_live |-> IF born THEN tl + 1 ELSE tl]

\* as update_world without its first write, array[idx] = 0
update_world_nozero(cur, array, tl, neighbors, idx) ==
  LET temp_cell == cur[idx]
      born == (temp_cell = 1 /\ neighbors \in {2, 3}) \/ (temp_cell = 0 /\ neighbors = 3)
  IN  [array |-> IF born THEN [array EXCEPT ![idx] = 1] ELSE array,
       total_live |-> IF born THEN tl + 1 ELSE tl]

\* as update_world with "if (neighbors = 3)" for a dead cell: always taken
update_world_assign(cur, array, tl, neighbors, idx) ==
  LET temp_cell == cur[idx]
      born == (temp_cell = 1 /\ neighbors \in {2, 3}) \/ temp_cell = 0
  IN  [array |-> [array EXCEPT ![idx] = IF born THEN 1 ELSE 0],
       total_live |-> IF born THEN tl + 1 ELSE tl]

update_world(cur, array, tl, neighbors, idx) ==
  LET temp_cell == cur[idx]
      a0 == [array EXCEPT ![idx] = 0]
      \* if (temp_cell == 1) { if (neighbors == 2) ...; if (neighbors == 3) ... }
      s1 == IF temp_cell = 1 /\ neighbors = 2
              THEN [array |-> [a0 EXCEPT ![idx] = 1], total_live |-> tl + 1]
              ELSE [array |-> a0, total_live |-> tl]
      s2 == IF temp_cell = 1 /\ neighbors = 3
              THEN [array |-> [s1.array EXCEPT ![idx] = 1], total_live |-> s1.total_live + 1]
              ELSE s1
      \* if (temp_cell == 0) { if (neighbors == 3) ... }
      s3 == IF temp_cell = 0 /\ neighbors = 3
              THEN [array |-> [s2.array EXCEPT ![idx] = 1], total_live |-> s2.total_live + 1]
              ELSE s2
  IN  s3

\* the body of play_gol's cell loop for cell (ci, cj)
play_gol_body_inplace(cur, array, tl, r, c, ci, cj) ==
  LET idx == ci * c + cj
      seen == [p \in DOMAIN cur |-> IF p < idx THEN array[p] ELSE cur[p]]
      neighbors == count_neighbors(seen, r, c, ci, cj) - cur[idx]
  IN  update_world(cur, array, tl, neighbors, idx)

play_gol_body(cur, array, tl, r, c, ci, cj) ==
  LET idx == ci * c + cj
      neighbors == count_neighbors(cur, r, c, ci, cj) - cur[idx]
  IN  update_world(cur, array, tl, neighbors, idx)

\* play_gol: the buffer handed to update_world as array, new_world
\* as pass_array handing over data->cells itself
pass_array_cells(c, n) == c

pass_array(c, n) == n

\* play_gol: the condition of the round loop, for (k = 0; k < iters; k++)
round_loop_cond_le(kk, n) == kk <= n

round_loop_cond(kk, n) == kk < n

\* play_gol: the condition of the cell loops, i < data->rows and j < data->cols
\* as cell_loop_cond, stopping one short
cell_loop_cond_short(ii, n) == ii < n - 1

cell_loop_cond(ii, n) == ii < n

\* play_gol: the exchange of data->cells and new_world through temp_array
\* as swap_pointers without its last assignment, new_world = temp_array
swap_pointers_half(c, n) == [cells |-> n, new_world |-> n]

swap_pointers(c, n) == [cells |-> n, new_world |-> c]

\* free(b): a block is freed once; freeing it again is a double free
free(al, b) ==
  IF b \in DOMAIN al
    THEN [al EXCEPT ![b] = IF al[b] = "live" THEN "freed" ELSE "double free"]
    ELSE al

\* play_gol: the value total_live has when a round's pass starts
round_start_live_stale(tl) == tl

round_start_live(tl) == 0

\* the grid data->cells holds
Grid == AsGrid(heap[cells], rows, cols)

(* ------------------------------- Init ---------------------------------- *)
Init ==
  /\ pc = "start"
  /\ rows = 0 /\ cols = 0 /\ iters = 0 /\ output_mode = 0 /\ current_round = 0
  /\ cells = NULL
  /\ total_live = 0
  /\ heap = [b \in {BufInit, BufPlay} |-> malloc(0)]
  /\ alloc = [b \in {BufInit, BufPlay} |-> "none"]
  /\ new_world = NULL
  /\ ret = 0 - 1
  /\ sj = 0 /\ k = 0 /\ i = 0 /\ j = 0
  /\ x = 0 /\ y = 0
  /\ todo = {}
  /\ grid0 = << >>
  /\ gen_before = << >>

(* ------------------- init_game_data_from_args -------------------------- *)
\* the coordinates a seed line gives: those of the grid, and one beyond it
\* on each side
SeedRows == MinCoord..(IF rows > 0 THEN rows ELSE 0)
SeedCols == MinCoord..(IF cols > 0 THEN cols ELSE 0)

\* fopen fails, or a header field does not parse: return 1
init_fail ==
  /\ pc = "start"
  /\ ret' = 1
  /\ pc' = "main_check"
  /\ UNCHANGED << todo, rows, cols, iters, output_mode, current_round, cells,
                  total_live, heap, alloc, new_world, sj, k, i, j,
                  x, y, grid0, gen_before >>

\* the header is read, the buffer allocated and zeroed
init_header ==
  /\ pc = "start"
  /\ \E r \in MinDim..MaxRows, c \in MinDim..MaxCols, it \in MinIters..MaxIters,
        n \in 0..MaxSeeds, m \in {OUTPUT_NONE, OUTPUT_ASCII, OUTPUT_VISI} :
       /\ r * c <= MaxCells
       /\ output_mode' = m
       /\ current_round' = 0
       /\ rows' = r /\ cols' = c /\ iters' = it /\ total_live' = n
       /\ cells' = BufInit
       /\ alloc' = [alloc EXCEPT ![BufInit] = "live"]
       /\ heap' = [heap EXCEPT ![BufInit] = [p \in DOMAIN malloc(r * c) |-> 0]]
  /\ sj' = 0
  /\ pc' = "init_seed"
  /\ UNCHANGED << todo, new_world, ret, k, i, j, x, y, grid0, gen_before >>

\* one seed whose index falls in the buffer: data->cells[idx] = 1
init_seed ==
  /\ pc = "init_seed"
  /\ sj < total_live
  /\ \E sx \in SeedRows, sy \in SeedCols :
       LET idx == sx * cols + sy
       IN  /\ idx \in DOMAIN heap[cells]
           /\ x' = sx /\ y' = sy
           /\ heap' = [heap EXCEPT ![cells][idx] = 1]
  /\ sj' = sj + 1
  /\ UNCHANGED << todo, pc, rows, cols, iters, output_mode, current_round, cells,
                  total_live, alloc, new_world, ret, k, i, j, grid0, gen_before >>

\* one seed whose index falls outside the buffer: the write is undefined
\* behaviour; the run goes on with storage of no buffer overwritten ...
init_seed_outside ==
  /\ pc = "init_seed"
  /\ sj < total_live
  /\ \E sx \in SeedRows, sy \in SeedCols :
       /\ sx * cols + sy \notin DOMAIN heap[cells]
       /\ x' = sx /\ y' = sy
  /\ sj' = sj + 1
  /\ UNCHANGED << todo, pc, rows, cols, iters, output_mode, current_round, cells,
                  total_live, heap, alloc, new_world, ret, k, i, j, grid0, gen_before >>

\* ... or the process is killed by the write, and nothing of the run remains
init_seed_crash ==
  /\ pc = "init_seed"
  /\ sj < total_live
  /\ \E sx \in SeedRows, sy \in SeedCols :
       sx * cols + sy \notin DOMAIN heap[cells]
  /\ pc' = "crashed"
  /\ rows' = 0 /\ cols' = 0 /\ iters' = 0 /\ output_mode' = 0 /\ total_live' = 0
  /\ cells' = NULL
  /\ heap' = [b \in {BufInit, BufPlay} |-> malloc(0)]
  /\ alloc' = [b \in {BufInit, BufPlay} |-> "none"]
  /\ sj' = 0
  /\ UNCHANGED << todo, current_round, new_world, ret, x, y, k, i, j, grid0, gen_before >>

\* the seed loop is over: fclose, return 0 (the locals j, x, y end here)
init_return ==
  /\ pc = "init_seed"
  /\ ~(sj < total_live)
  /\ ret' = 0
  /\ sj' = 0 /\ x' = 0 /\ y' = 0
  /\ grid0' = Grid
  /\ pc' = "main_check"
  /\ UNCHANGED << todo, rows, cols, iters, output_mode, current_round, cells,
                  total_live, heap, alloc, new_world, k, i, j, gen_before >>

(* -------------------------------- main --------------------------------- *)
\* main after init_game_data_from_args: exit(1) on an error, else play_gol
\* is entered and allocates new_world
main_check ==
  /\ pc = "main_check"
  /\ IF ret # 0
       THEN /\ pc' = "exit"
            /\ UNCHANGED << new_world, heap, alloc, k >>
       ELSE /\ pc' = "play_loop"
            /\ new_world' = BufPlay
            /\ alloc' = [alloc EXCEPT ![BufPlay] = "live"]
            /\ heap' = [heap EXCEPT ![BufPlay] = malloc(rows * cols)]
            /\ k' = 0
  /\ UNCHANGED << todo, rows, cols, iters, output_mode, current_round, cells,
                  total_live, ret, sj, i, j, x, y, grid0, gen_before >>

(* ------------------------------ play_gol ------------------------------- *)
\* head of the round loop: start the pass of round k, or free(new_world)
\* and return
play_gol_loop ==
  /\ pc = "play_loop"
  /\ IF round_loop_cond(k, iters)
       THEN /\ total_live' = round_start_live(total_live)
            /\ gen_before' = Grid
            /\ i' = 0 /\ j' = 0
            /\ todo' = {q[1] * cols + q[2] : q \in GridCells(rows, cols)}
            /\ pc' = IF cell_loop_cond(0, rows) /\ cell_loop_cond(0, cols)
                       THEN "cell" ELSE "swap"
            /\ UNCHANGED alloc
       ELSE /\ alloc' = free(alloc, new_world)
            /\ pc' = "main_end"
            /\ UNCHANGED << total_live, gen_before, i, j, todo >>
  /\ UNCHANGED << rows, cols, iters, output_mode, current_round, cells,
                  heap, new_world, ret, sj, k, x, y, grid0 >>

\* one cell of the pass, then the loop counters advance
play_gol_cell ==
  /\ pc = "cell"
  /\ LET array == pass_array(cells, new_world)
         w == play_gol_body(heap[cells], heap[array], total_live, rows, cols, i, j)
     IN  /\ heap' = [heap EXCEPT ![array] = w.array]
         /\ total_live' = w.total_live
  /\ todo' = todo \ {i * cols + j}
  /\ IF cell_loop_cond(j + 1, cols)
       THEN j' = j + 1 /\ i' = i /\ pc' = "cell"
       ELSE /\ j' = 0
            /\ i' = i + 1
            /\ pc' = IF cell_loop_cond(i + 1, rows) THEN "cell" ELSE "swap"
  /\ UNCHANGED << rows, cols, iters, output_mode, current_round, cells,
                  alloc, new_world, ret, sj, k, x, y, grid0, gen_before >>

\* the pointers are exchanged
play_gol_swap ==
  /\ pc = "swap"
  /\ cells' = swap_pointers(cells, new_world).cells
  /\ new_world' = swap_pointers(cells, new_world).new_world
  /\ pc' = IF output_mode \in {OUTPUT_ASCII, OUTPUT_VISI} THEN "display" ELSE "round_end"
  /\ UNCHANGED << todo, rows, cols, iters, output_mode, current_round, total_live,
                  heap, alloc, ret, sj, k, i, j, x, y, grid0, gen_before >>

\* print_board (ASCII) or update_color (ParaVis) shows data->cells
play_gol_display ==
  /\ pc = "display"
  /\ pc' = "round_end"
  /\ UNCHANGED << todo, rows, cols, iters, output_mode, current_round, cells, total_live,
                  heap, alloc, new_world, ret, sj, k, i, j,
                  x, y, grid0, gen_before >>

\* end of the round: current_round and k are incremented
play_gol_round_end ==
  /\ pc = "round_end"
  /\ current_round' = current_round + 1
  /\ k' = k + 1
  /\ pc' = "play_loop"
  /\ UNCHANGED << todo, rows, cols, iters, output_mode, cells, total_live,
                  heap, alloc, new_world, ret, sj, i, j,
                  x, y, grid0, gen_before >>

\* main after play_gol: the result is reported and data.cells freed
main_finish ==
  /\ pc = "main_end"
  /\ alloc' = free(alloc, cells)
  /\ pc' = "done"
  /\ UNCHANGED << todo, rows, cols, iters, output_mode, current_round, cells, total_live,
                  heap, new_world, ret, sj, k, i, j,
                  x, y, grid0, gen_before >>

Next ==
  \/ init_fail
  \/ init_header
  \/ init_seed
  \/ init_seed_outside
  \/ init_seed_crash
  \/ init_return
  \/ main_check
  \/ play_gol_loop
  \/ play_gol_cell
  \/ play_gol_swap
  \/ play_gol_display
  \/ play_gol_round_end
  \/ main_finish

Spec == Init /\ [][Next]_vars

(* ========================== reference notions ========================== *)
\* Conway's rule
Rule(s, n) == IF (s = 1 /\ n \in {2, 3}) \/ (s = 0 /\ n = 3) THEN 1 ELSE 0

\* the 8 offsets of a cell's neighbours
Neighbours8 == Offsets \ {<<0, 0>>}

\* live neighbours of (a, b) on the r x c torus, every offset counted
WrappedLive(G, r, c, a, b) ==
  Cardinality({o \in Neighbours8 : G[<<(a + o[1]) % r, (b + o[2]) % c>>] = 1})

\* the synchronous generation after G
Conway(G, r, c) ==
  [q \in GridCells(r, c) |-> Rule(G[q], WrappedLive(G, r, c, q[1], q[2]))]

RECURSIVE Iterate(_, _, _, _)
Iterate(G, r, c, n) == IF n <= 0 THEN G ELSE Iterate(Conway(G, r, c), r, c, n - 1)

LiveCells(G) == Cardinality({q \in DOMAIN G : G[q] = 1})

AllDead(G) == \A q \in DOMAIN G : G[q] = 0

\* the header was read (and the run was not killed)
HeaderRead == cells # NULL

ValidDims == rows >= 1 /\ cols >= 1

InRange(a, b) == a >= 0 /\ a < rows /\ b >= 0 /\ b < cols

\* positions of init_game_data_from_args
InInit == pc \in {"start", "init_seed"}

\* positions inside play_gol, and the return to main
InPass == pc \in {"cell", "swap"}
AfterSwap == pc \in {"display", "round_end"}
RoundDone == AfterSwap \/ (pc \in {"play_loop", "main_end"} /\ current_round >= 1)
Playing == pc \in {"play_loop", "cell", "swap", "display", "round_end", "main_end"}
\* init_game_data_from_args has returned 0
AfterInit == Playing \/ (pc = "main_check" /\ ret = 0)

\* the indices the pass of the current round has already written
Written == IF pc = "cell" THEN 0..(i * cols + j - 1)
           ELSE IF pc = "swap" THEN 0..(Cardinality(DOMAIN gen_before) - 1)
           ELSE {}

\* the index the last step of the pass wrote
LastWritten == {p \in Written : p + 1 \notin Written}

(* ================================ C1 =================================== *)
\* C1: for every (current_state, live_neighbors) in {0,1} x {0..8},
\* update_world writes 1 exactly when the cell is alive with 2 or 3 live
\* neighbours or dead with exactly 3, and 0 otherwise; and so is the value
\* each step of a round's pass has written.
C1_RuleTable ==
  InPass =>
    /\ \A s \in {0, 1}, n \in 0..8 :
         update_world([p \in {0} |-> s], [p \in {0} |-> Uninit], 0, n, 0).array[0]
           = Rule(s, n)
    /\ \A p \in LastWritten :
         heap[new_world][p]
           = Rule(heap[cells][p],
                  count_neighbors(heap[cells], rows, cols, p \div cols, p % cols)
                    - heap[cells][p])

\* a pass has written a birth (dead, 3 neighbours) and a survival (alive,
\* 2 neighbours)
C1_Witness ==
  /\ pc = "cell"
  /\ \E p \in Written : heap[cells][p] = 0 /\ heap[new_world][p] = 1
  /\ \E p \in Written : heap[cells][p] = 1 /\ heap[new_world][p] = 1

(* ================================ C2 =================================== *)
\* C2: on a grid with rows >= 1 and cols >= 1 the neighbour count a round
\* uses for its cell (i, j) (count_neighbors minus the cell's own state)
\* is the number of the 8 offsets whose wrapped cell is alive, every
\* offset counted, and lies in 0..8; on a 3x3 grid with only (0,0) alive
\* the count for (2,2) is 1.
C2_NeighbourCount ==
  pc = "cell" =>
    /\ LET n == count_neighbors(heap[cells], rows, cols, i, j)
                  - heap[cells][i * cols + j]
       IN  /\ n = WrappedLive(Grid, rows, cols, i, j)
           /\ n \in 0..8
    /\ (rows = 3 /\ cols = 3 /\ \A q \in GridCells(3, 3) : (Grid[q] = 1) <=> (q = <<0, 0>>))
         => count_neighbors(heap[cells], 3, 3, 2, 2) - heap[cells][8] = 1

\* the pass is at cell (2,2) of a 3x3 grid whose only live cell is (0,0)
C2_Witness ==
  /\ pc = "cell" /\ rows = 3 /\ cols = 3 /\ i = 2 /\ j = 2
  /\ \A q \in GridCells(3, 3) : (Grid[q] = 1) <=> (q = <<0, 0>>)

(* ================================ C3 =================================== *)
\* C3: after each round the current buffer is the synchronous Conway
\* generation of the grid the round started from.
C3_SynchronousGeneration ==
  RoundDone => Grid = Conway(gen_before, rows, cols)

\* a round has ended in which a cell was born
C3_Witness ==
  /\ pc = "round_end"
  /\ \E q \in DOMAIN Grid : gen_before[q] = 0 /\ Grid[q] = 1
  /\ \E q \in DOMAIN Grid : gen_before[q] = 1

(* ================================ C4 =================================== *)
\* C4: after every completed round total_live is the number of cells equal
\* to 1 in the newly current buffer.
C4_LiveCount ==
  RoundDone => total_live = LiveCells(Grid)

\* a round has ended whose live count differs from the one before it
C4_Witness ==
  /\ pc = "round_end"
  /\ total_live > 0
  /\ total_live # LiveCells(gen_before)

(* ================================ C5 =================================== *)
\* C5: play_gol with iters = N >= 0 leaves the grid that N single rounds
\* make of the initial grid; with N = 0 the grid is unchanged.
C5_RoundComposition ==
  (pc = "main_end" /\ iters >= 0) =>
    /\ Grid = Iterate(grid0, rows, cols, iters)
    /\ iters = 0 => Grid = grid0

\* play_gol has returned from two rounds that each changed the grid
C5_Witness ==
  /\ pc = "main_end" /\ iters = 2
  /\ Grid # grid0
  /\ Grid # Conway(grid0, rows, cols)

(* ================================ C6 =================================== *)
\* C6: seeding a coordinate with row outside [0, rows) or col outside
\* [0, cols) fails with an error at that call, and writes nothing (stated
\* for a configuration that is valid otherwise: rows, cols >= 1, iters >= 0).
C6_OutOfRangeRejected ==
  [][(pc = "init_seed" /\ ValidDims /\ iters >= 0 /\ sj' = sj + 1 /\ ~InRange(x', y'))
       => (heap' = heap /\ ret' = 1 /\ pc' = "main_check")]_vars

(* ================================ C7 =================================== *)
\* C7: with rows <= 0 or cols <= 0 the initialisation returns an error and
\* no round is ever run (stated for a configuration that is valid
\* otherwise: iters >= 0).
C7_InvalidDimensionsRejected ==
  (HeaderRead /\ ~ValidDims /\ iters >= 0) =>
    /\ ~InInit => ret # 0
    /\ pc \notin {"cell", "swap", "display", "round_end"}
    /\ current_round = 0

(* ================================ C8 =================================== *)
\* C8: a negative iteration count is rejected before any round is run: the
\* run never enters play_gol and never ends as a run of zero rounds (stated
\* for a configuration that is valid otherwise: rows, cols >= 1).
C8_NegativeRoundsRejected ==
  (HeaderRead /\ ValidDims /\ iters < 0) => pc \notin {"play_loop", "main_end", "done"}

(* ================================ C9 =================================== *)
\* C9: once the initialisation has returned, and after any number of
\* rounds, every element of the current buffer of a grid (rows >= 1,
\* cols >= 1) is 0 or 1.
C9_CellsBinary ==
  (AfterInit /\ ValidDims) => \A p \in DOMAIN heap[cells] : heap[cells][p] \in {0, 1}

\* a round has ended that left live and dead cells in the buffer play_gol
\* allocated
C9_Witness ==
  /\ pc = "round_end" /\ ValidDims /\ cells = BufPlay
  /\ \E p \in DOMAIN heap[cells] : heap[cells][p] = 1
  /\ \E p \in DOMAIN heap[cells] : heap[cells][p] = 0

(* ================================ C10 ================================== *)
\* C10: a grid (rows >= 1, cols >= 1) whose cells are all dead is all dead
\* after any number of rounds, and the live count of every round is 0.
C10_EmptyStaysEmpty ==
  (Playing /\ ValidDims /\ AllDead(grid0)) =>
    /\ AllDead(Grid)
    /\ RoundDone => total_live = 0

\* two rounds have run on an all-dead 3x3 grid
C10_Witness ==
  /\ pc = "main_end" /\ rows = 3 /\ cols = 3 /\ current_round = 2
  /\ AllDead(grid0)

(* ===================== runs on a given configuration =================== *)
\* the state in which init_game_data_from_args returns 0 for a file with
\* header (r, c, it, n) whose seed lines set exactly the cells of buf that
\* hold 1
initialised(r, c, it, m, n, buf) ==
  /\ pc = "main_check"
  /\ rows = r /\ cols = c /\ iters = it /\ output_mode = m /\ current_round = 0
  /\ cells = BufInit
  /\ total_live = n
  /\ heap = [b \in {BufInit, BufPlay} |-> IF b = BufInit THEN buf ELSE malloc(0)]
  /\ alloc = [b \in {BufInit, BufPlay} |-> IF b = BufInit THEN "live" ELSE "none"]
  /\ new_world = NULL
  /\ ret = 0
  /\ sj = 0 /\ k = 0 /\ i = 0 /\ j = 0
  /\ x = 0 /\ y = 0
  /\ todo = {}
  /\ grid0 = AsGrid(buf, r, c)
  /\ gen_before = << >>

\* the buffer of an r x c grid whose live cells are those of the set live
buffer_of(r, c, live) ==
  [p \in 0..(r * c - 1) |-> IF <<p \div c, p % c>> \in live THEN 1 ELSE 0]

\* init_game_data_from_args has returned 0 for a file with a valid grid, an
\* iteration count of its, an output mode of ms and at most MaxSeeds seeds,
\* all of them different cells of the grid
InitValid(its, ms) ==
  \E r \in 1..MaxRows, c \in 1..MaxCols, it \in its, m \in ms :
    /\ r * c <= MaxCells
    /\ \E live \in SUBSET GridCells(r, c) :
         /\ Cardinality(live) <= MaxSeeds
         /\ initialised(r, c, it, m, Cardinality(live), buffer_of(r, c, live))

\* largest row / column count of the pattern files
MaxPatternDim == 5
\* smallest grid of the block files (4) and of the blinker files (5)
MinBlockDim == 2 + 2
MinBlinkerDim == 2 + 3

\* a 2x2 block with its top left cell at (a, b) of the r x c torus
Block(r, c, a, b) ==
  {<<a, b>>, <<a, (b + 1) % c>>, <<(a + 1) % r, b>>, <<(a + 1) % r, (b + 1) % c>>}

\* three live cells in a row / in a column, centred at (a, b)
BlinkerH(a, b) == {<<a, b - 1>>, <<a, b>>, <<a, b + 1>>}
BlinkerV(a, b) == {<<a - 1, b>>, <<a, b>>, <<a + 1, b>>}

\* the centres that are not on an edge of the grid
Centres(r, c) == (1..(r - 2)) \X (1..(c - 2))

\* a file with a single block, or with a single lying blinker
InitPattern ==
  \E it \in 0..MaxIters, m \in {OUTPUT_NONE, OUTPUT_ASCII, OUTPUT_VISI} :
    \/ \E r \in MinBlockDim..MaxPatternDim, c \in MinBlockDim..MaxPatternDim :
         \E q \in GridCells(r, c) :
           initialised(r, c, it, m, 4, buffer_of(r, c, Block(r, c, q[1], q[2])))
    \/ \E r \in MinBlinkerDim..MaxPatternDim, c \in MinBlinkerDim..MaxPatternDim :
         \E q \in Centres(r, c) :
           initialised(r, c, it, m, 3, buffer_of(r, c, BlinkerH(q[1], q[2])))

NextPattern ==
  \/ main_check
  \/ play_gol_loop
  \/ play_gol_cell
  \/ play_gol_swap
  \/ play_gol_display
  \/ play_gol_round_end
  \/ main_finish

SpecPattern == InitPattern /\ [][NextPattern]_vars

\* the set of live cells of a grid
LiveSet(G) == {q \in DOMAIN G : G[q] = 1}

(* ================================ C11 ================================== *)
\* C11: on a grid of at least 4x4 whose only live cells are a 2x2 block, the
\* grid after every round is the initial grid, and the live count after
\* every round is 4.
C11_BlockStillLife ==
  \A q \in GridCells(rows, cols) :
    (RoundDone /\ LiveSet(grid0) = Block(rows, cols, q[1], q[2]))
      => /\ Grid = grid0
         /\ total_live = 4

\* two rounds were played on a block that lies across the wrap of the torus
C11_Witness ==
  /\ pc = "main_end" /\ current_round = 2
  /\ LiveSet(grid0) = Block(rows, cols, rows - 1, cols - 1)
  /\ Grid = grid0 /\ total_live = 4

(* ================================ C12 ================================== *)
\* C12: on a grid of at least 5x5 whose only live cells are three in a row,
\* centred away from the edges, the grid after an odd number of rounds has
\* exactly the three cells of the column through the same centre, and the
\* grid after an even number of rounds is the initial grid.
C12_BlinkerPeriod2 ==
  \A q \in Centres(rows, cols) :
    (LiveSet(grid0) = BlinkerH(q[1], q[2]) /\ (RoundDone \/ pc = "main_end"))
      => LET done == IF AfterSwap THEN current_round + 1 ELSE current_round
         IN  /\ done % 2 = 1 => LiveSet(Grid) = BlinkerV(q[1], q[2])
             /\ done % 2 = 0 => Grid = grid0
             /\ done >= 1 => total_live = 3

\* one round gave the standing blinker, the second the lying one again
C12_Witness ==
  /\ pc = "main_end" /\ current_round = 2
  /\ \E q \in Centres(rows, cols) :
       /\ LiveSet(grid0) = BlinkerH(q[1], q[2])
       /\ LiveSet(gen_before) = BlinkerV(q[1], q[2])
       /\ Grid = grid0

(* ================================ C13 ================================== *)
\* C13: at every step of the cell pass the two buffers are distinct, the
\* current buffer (data->cells) is left as it is and still holds the
\* generation the round started from, only the visited cell of the next
\* buffer (new_world) changes, and what is written and counted is the same
\* whatever the next buffer held before.
C13_BuffersSeparate ==
  [][pc = "cell" =>
       LET idx == i * cols + j
           next_any == {malloc(rows * cols), [p \in DOMAIN heap[cells] |-> 0],
                        [p \in DOMAIN heap[cells] |-> 1]}
       IN  /\ cells # new_world
           /\ cells' = cells /\ new_world' = new_world
           /\ heap'[cells] = heap[cells]
           /\ AsGrid(heap'[cells], rows, cols) = gen_before
           /\ \A p \in DOMAIN heap[new_world] \ {idx} :
                heap'[new_world][p] = heap[new_world][p]
           /\ \A g \in next_any :
                LET w == play_gol_body(heap[cells], g, total_live, rows, cols, i, j)
                IN  /\ heap'[new_world][idx] = w.array[idx]
                    /\ total_live' = w.total_live]_vars

\* a cell of the second round is about to be visited: the next buffer holds
\* the generation before last, and its entry differs from the one to write
C13_Witness ==
  /\ pc = "cell" /\ current_round = 1 /\ i * cols + j >= 1
  /\ heap[new_world][i * cols + j]
       # play_gol_body(heap[cells], heap[new_world], total_live, rows, cols, i, j).array[i * cols + j]
  /\ heap[cells] # heap[new_world]

(* ================================ C14 ================================== *)
\* C14: for the cell the pass visits and every offset of {-1,0,1} x {-1,0,1},
\* the index count_neighbors computes lies in 0 .. rows*cols - 1: no read
\* falls outside the buffer.
C14_IndexInBuffer ==
  pc = "cell" =>
    \A o \in Offsets :
      /\ index_neighbor(rows, cols, i, j, o[1], o[2]) >= 0
      /\ index_neighbor(rows, cols, i, j, o[1], o[2]) < rows * cols
      /\ index_neighbor(rows, cols, i, j, o[1], o[2]) \in DOMAIN heap[cells]

\* the visited cell is a corner of a 3x3 grid, so that offsets leave the
\* grid on two sides and wrap to the opposite corner
C14_Witness ==
  /\ pc = "cell"
  /\ \/ rows = 3 /\ cols = 3 /\ i = 0 /\ j = 0 /\ heap[cells][8] = 1
     \/ rows = 3 /\ cols = 3 /\ i = 2 /\ j = 2 /\ heap[cells][0] = 1
  /\ index_neighbor(rows, cols, i, j, 0 - 1, 0 - 1) = (IF i = 0 THEN 8 ELSE 4)
  /\ index_neighbor(rows, cols, i, j, 1, 1) = (IF i = 0 THEN 4 ELSE 0)

(* ================================ C15 ================================== *)
\* the runs of main and play_gol on every valid file of the bounds, the
\* program being scheduled as long as it has a step to take
InitRounds == InitValid(0..MaxIters, {OUTPUT_NONE, OUTPUT_ASCII, OUTPUT_VISI})

SpecRounds == InitRounds /\ [][NextPattern]_vars /\ WF_vars(NextPattern)

\* C15: play_gol, entered with iters = N >= 0, returns, and when it has
\* returned exactly N rounds were run (the loop counter k is N) and
\* current_round, 0 at the start, is N; it has not returned earlier.
C15_ExactlyNRounds ==
  /\ [](pc = "play_loop" /\ k = 0 => current_round = 0)
  /\ []((pc = "main_end" /\ iters >= 0) => (k = iters /\ current_round = iters))
  /\ (pc = "play_loop") ~> (pc = "main_end")

\* play_gol returned after 2 rounds although the grid was empty, and so
\* unchanged, from the first round on
C15_Witness ==
  /\ pc = "main_end" /\ iters = 2 /\ current_round = 2
  /\ ~AllDead(grid0) /\ AllDead(gen_before) /\ AllDead(Grid)

(* ================================ C16 ================================== *)
\* one cell of the pass as play_gol_cell, the loops taken to visit the cells
\* in an order of any kind: the next cell is any cell not visited yet (the
\* counters i and j, which give the row-major order, are left out)
play_gol_cell_any ==
  /\ pc = "cell"
  /\ \E p \in todo :
       LET array == pass_array(cells, new_world)
           w == play_gol_body(heap[cells], heap[array], total_live, rows, cols,
                              p \div cols, p % cols)
       IN  /\ heap' = [heap EXCEPT ![array] = w.array]
           /\ total_live' = w.total_live
           /\ todo' = todo \ {p}
           /\ pc' = IF todo \ {p} # {} THEN "cell" ELSE "swap"
  /\ UNCHANGED << rows, cols, iters, output_mode, current_round, cells,
                  alloc, new_world, ret, sj, k, i, j, x, y, grid0, gen_before >>

\* a file that asks for one round without output
InitOrder == InitValid({1}, {OUTPUT_NONE})

NextOrder ==
  \/ main_check
  \/ play_gol_loop
  \/ play_gol_cell_any
  \/ play_gol_swap
  \/ play_gol_round_end
  \/ main_finish

SpecOrder == InitOrder /\ [][NextOrder]_vars

\* the pass of play_gol in the order of the code, row by row, from index idx on
RECURSIVE pass_row_major(_, _, _, _, _, _)
pass_row_major(cur, array, tl, r, c, idx) ==
  IF idx >= r * c
    THEN [array |-> array, total_live |-> tl]
    ELSE LET w == play_gol_body(cur, array, tl, r, c, idx \div c, idx % c)
         IN  pass_row_major(cur, w.array, w.total_live, r, c, idx + 1)

\* C16: when a pass that visited the cells in any order is over, the next
\* buffer and total_live are those of the pass in row-major order.
C16_OrderIndependent ==
  pc = "swap" =>
    LET w == pass_row_major(heap[cells], malloc(rows * cols), round_start_live(total_live),
                            rows, cols, 0)
    IN  /\ heap[new_world] = w.array
        /\ total_live = w.total_live

\* a pass on a 3x3 grid has visited the last cell of the row-major order, and
\* written a live cell there, before the first one
C16_Witness ==
  /\ pc = "cell" /\ rows = 3 /\ cols = 3
  /\ 0 \in todo /\ 8 \notin todo
  /\ heap[new_world][8] = 1 /\ heap[cells][8] = 0

(* ================================ C17 ================================== *)
\* the points at which the grid is shown: print_board or update_color in
\* play_gol, and main after play_gol has returned
Observed == pc \in {"display", "main_end"}

\* C17: at every point at which the grid is shown, no pass is under way on
\* the buffer data->cells points to, and every cell of it was computed from
\* one and the same generation: the grid is the initial one if no round was
\* run, and else the generation after the one the last round started from.
C17_ObservedGenerationWhole ==
  Observed =>
    /\ todo = {}
    /\ cells # new_world
    /\ \A q \in GridCells(rows, cols) : Grid[q] \in {0, 1}
    /\ IF pc = "main_end" /\ current_round = 0
         THEN Grid = grid0
         ELSE \A q \in GridCells(rows, cols) :
                Grid[q] = Rule(gen_before[q], WrappedLive(gen_before, rows, cols, q[1], q[2]))

\* the grid of the second round is shown, and differs from the one before
C17_Witness ==
  /\ pc = "display" /\ output_mode = OUTPUT_VISI /\ current_round = 1
  /\ Grid # gen_before /\ gen_before # grid0

(* ================================ C18 ================================== *)
\* C18: while play_gol runs, data->cells and new_world point to the two
\* different blocks, both allocated; the swap copies nothing (the block
\* new_world points to afterwards still holds the generation the round
\* started from); when play_gol has returned it has freed the block of
\* new_world and not the one of data->cells; when main is done each block
\* was freed, and no block is ever freed twice.
C18_SwapAndFreeOnce ==
  /\ \A b \in DOMAIN alloc : alloc[b] # "double free"
  /\ Playing => /\ cells # new_world
                /\ {cells, new_world} = {BufInit, BufPlay}
                /\ alloc[cells] = "live"
  /\ (Playing /\ pc # "main_end") => alloc[new_world] = "live"
  /\ AfterSwap => AsGrid(heap[new_world], rows, cols) = gen_before
  /\ pc = "main_end" => alloc[new_world] = "freed"
  /\ pc = "done" => \A b \in DOMAIN alloc : alloc[b] = "freed"

\* after one round the roles are exchanged: play_gol has freed the block
\* init_game_data_from_args allocated, and main the block play_gol allocated
C18_Witness ==
  /\ pc = "done" /\ iters = 1 /\ current_round = 1
  /\ cells = BufPlay /\ new_world = BufInit
  /\ alloc[BufInit] = "freed" /\ alloc[BufPlay] = "freed"
  /\ Grid # grid0

(* ================================ C19 ================================== *)
\* one seed as init_seed, for the files whose seed lines all name cells of
\* the grid (0 <= x < rows, 0 <= y < cols): data->cells[x*cols + y] = 1
init_seed_in_range ==
  /\ pc = "init_seed"
  /\ sj < total_live
  /\ \E sx \in 0..(rows - 1), sy \in 0..(cols - 1) :
       /\ x' = sx /\ y' = sy
       /\ heap' = [heap EXCEPT ![cells][sx * cols + sy] = 1]
  /\ sj' = sj + 1
  /\ UNCHANGED << todo, pc, rows, cols, iters, output_mode, current_round, cells,
                  total_live, alloc, new_world, ret, k, i, j, grid0, gen_before >>

NextInRange ==
  \/ init_fail
  \/ init_header
  \/ init_seed_in_range
  \/ init_return
  \/ main_check
  \/ play_gol_loop
  \/ play_gol_cell
  \/ play_gol_swap
  \/ play_gol_display
  \/ play_gol_round_end
  \/ main_finish

\* the runs on the files whose seeds are all in the grid
SpecInRange == Init /\ [][NextInRange]_vars

\* C19: when play_gol has returned on a valid grid with iters >= 0, the live
\* count main reports (total_live) is the number of cells of the final grid
\* that hold 1.
C19_ReportedCountIsLiveCells ==
  (pc = "main_end" /\ ValidDims /\ iters >= 0) => total_live = LiveCells(Grid)

(* ================================ C20 ================================== *)
\* print_board: the round number it prints is data->current_round (its
\* parameter round is not used)
print_board_round == current_round

\* the number of rounds whose generation data->cells holds: the passes that
\* were swapped in
rounds_completed == IF AfterSwap THEN k + 1 ELSE k

\* C20: whenever print_board shows the board in ASCII mode on a valid grid
\* (before play_gol, after the swap of every round, and after play_gol has
\* returned with iters >= 0), the round number it prints is the number of
\* rounds completed: 0, then k after the k-th round, then iters.
C20_PrintedRoundIsRoundsCompleted ==
  (output_mode = OUTPUT_ASCII /\ ret = 0 /\ ValidDims /\ iters >= 0)
    => /\ pc = "main_check" => print_board_round = 0
       /\ pc = "display" => print_board_round = rounds_completed
       /\ pc = "main_end" => print_board_round = iters

====
